---- MODULE Spec2Model ----
(***************************************************************************)
(* Model of the work-packages merge/split algorithm                        *)
(* (src/workpackages/wp.py, src/workpackages/remapping.py).                *)
(*                                                                         *)
(* One configured table is modelled.  A row of the table is a record       *)
(*   [id |-> primary key, k |-> attribute]                                 *)
(* where k is the one non-key column of the table: its filter column under *)
(* method filter-column and its geometry under method filter-geometry      *)
(* (Null is SQL NULL in both readings).  A table is a set of rows with     *)
(* distinct ids.                                                           *)
(* A remap relation is a set of entries [m |-> master_fid, w |-> wp_fid].  *)
(* A directory (base/, input/, output/, tmp/) is a record of its files.    *)
(***************************************************************************)
EXTENDS Integers, Sequences, FiniteSets, TLC

\* ---------------------------------------------------------------- bounds
MaxMasterFid == 3      \* users insert master / WP rows only while ids stay small
MaxRuns == 3           \* number of runs of make_work_packages in a behaviour
MaxMasterEdits == 1    \* user edits of input/master.gpkg in a behaviour
MaxWpEdits == 2        \* user edits of input/<wp>.gpkg in a behaviour
InitRows == 2          \* rows of the first input/master.gpkg

\* ------------------------------------------------------ program constants
FirstWpFid == 1000000
FirstMasterFid == 1

\* ------------------------------------------------------------ value sets
Null == 0
KVals == {Null, 1, 2}
NonNullKVals == KVals \ {Null}
FILTER_METHOD_COLUMN == "filter-column"
FILTER_METHOD_GEOMETRY == "filter-geometry"
Methods == {FILTER_METHOD_COLUMN, FILTER_METHOD_GEOMETRY}
AllWPs == {"A", "B"}

VARIABLES
    method,        \* wp_config.wp_tables[0].filter_method
    base,          \* directory base/
    input,         \* directory input/
    output,        \* directory output/
    tmp,           \* directory tmp/ : the remapped copies <wp>-base, <wp>-input
    pc,            \* position of make_work_packages / of the caller
    old_wp_names,  \* list built by the scan of base/
    idx,           \* index of the next iteration of the running stage
    runs,          \* runs started so far
    medits,        \* edits of input/master.gpkg so far
    wedits,        \* edits of input/<wp>.gpkg so far
    ev,            \* what the last step did (history of the remap calls)
    call,          \* a function of the package called on its own: its name and arguments
    ret            \* what that call has done so far: its result, or the error it raised

mainvars == <<method, base, input, output, tmp, pc, old_wp_names, idx, runs, medits, wedits, ev>>

vars == <<method, base, input, output, tmp, pc, old_wp_names, idx, runs, medits, wedits, ev, call, ret>>

\* --------------------------------------------------------------- helpers
Ids(t) == {r.id : r \in t}

MaxOf(S) == CHOOSE x \in S : \A y \in S : y <= x

RowOf(t, i) == CHOOSE r \in t : r.id = i

MasterFids(rel) == {e.m : e \in rel}

WpFids(rel) == {e.w : e \in rel}

\* all enumerations of a finite set (the iteration orders a Python set may have)
Orders(S) == {s \in [1..Cardinality(S) -> S] : \A i, j \in 1..Cardinality(S) : i # j => s[i] # s[j]}

EmptyFiles == [w \in AllWPs |-> {}]

\* no function is being called on its own
NoCall == [fn |-> "none"]

NoRet == [fn |-> "none"]

NoDir == [hasMaster |-> FALSE, master |-> {}, wps |-> {}, wp |-> EmptyFiles,
          hasRemap |-> FALSE, rels |-> {}, remap |-> EmptyFiles]

NoTmp == [wps |-> {}, base |-> EmptyFiles, input |-> EmptyFiles]

\* ev: op is the step taken; for a Stage 1 iteration new_fid is new_master_fids[T],
\* masterIds the keys of output/master.gpkg when it was computed, relBefore the (T, wp)
\* relation before the iteration, addedBase / addedInput the entries the two calls of
\* remap_table_wp_to_master inserted; for a Stage 2 iteration added is what
\* remap_table_master_to_wp inserted and kept the rows the filter left.
NoEv == [op |-> "none", wp |-> "", new_fid |-> 0, masterIds |-> {}, relBefore |-> {},
         addedBase |-> {}, addedInput |-> {}, added |-> {}, kept |-> {}, applied |-> FALSE]

\* ------------------------------------------------------------- remapping
\* mutant: one relation per table, whatever the work package
remap_table_name_Shared(wp) == "A"

\* remap_table_name(table_name, wp_name): the relation of a (table, work package)
\* pair; one table is modelled, so the work package's name identifies it
remap_table_name(wp) == wp

\* mutant: the relation created without the PRIMARY KEY on master_fid
ConstraintsHold_NoPrimaryKey(rel, e) == e.w \notin WpFids(rel)

\* the constraints of a remap relation: master_fid INTEGER PRIMARY KEY, wp_fid INTEGER UNIQUE
ConstraintsHold(rel, e) == e.m \notin MasterFids(rel) /\ e.w \notin WpFids(rel)

\* INSERT INTO remap VALUES (?, ?) for each entry of a list, in order;
\* ok is FALSE when an INSERT raises (constraint violated), the relation then keeps
\* the entries inserted before it (they are still inside the open transaction)
RECURSIVE InsertEntries(_, _)
InsertEntries(rel, entries) ==
    IF entries = <<>> THEN [ok |-> TRUE, rel |-> rel]
    ELSE IF ~ConstraintsHold(rel, Head(entries)) THEN [ok |-> FALSE, rel |-> rel]
    ELSE InsertEntries(rel \cup {Head(entries)}, Tail(entries))

\* mutant: the keys are negated and never set to their mapped values
RewriteKeys_NegateOnly(t, mapping) == {[r EXCEPT !.id = -r.id] : r \in t}

\* UPDATE t SET pk = -pk, then UPDATE t SET pk = ? WHERE pk = ? for every pair (from, to)
\* of the mapping.  Keys are positive in every state of this specification, so
\* the updates touch disjoint rows and their order does not matter.
RewriteKeys(t, mapping) ==
    LET negated == {[r EXCEPT !.id = -r.id] : r \in t}
        target(r) == (CHOOSE p \in mapping : -p[1] = r.id)[2]
    IN {[r EXCEPT !.id = target(r)] : r \in negated}

\* mutant: SELECT max(master_fid) instead of max(wp_fid)
NextWpFid_MasterColumn(rel) == IF rel = {} THEN FirstWpFid ELSE MaxOf(MasterFids(rel)) + 1

\* new_wp_fid of remap_table_master_to_wp: max(wp_fid) + 1, or 1000000 for an empty relation
NextWpFid(rel) == IF rel = {} THEN FirstWpFid ELSE MaxOf(WpFids(rel)) + 1

\* mutant: the entries of master rows that are no longer in the table are dropped
remap_table_master_to_wp_Purge(rel, t, order) ==
    LET live == {e \in rel : e.m \in Ids(t)}
        new_wp_fid == NextWpFid(live)
        entries == [i \in 1..Len(order) |-> [m |-> order[i], w |-> new_wp_fid + i - 1]]
        ins == InsertEntries(live, entries)
        mapping == {<<r.id, (CHOOSE e \in ins.rel : e.m = r.id).w>> : r \in t}
    IN IF ~ins.ok THEN [ok |-> FALSE, rel |-> ins.rel, table |-> t, new |-> ins.rel \ rel]
       ELSE [ok |-> TRUE, rel |-> ins.rel, table |-> RewriteKeys(t, mapping), new |-> ins.rel \ rel]

\* remap_table_master_to_wp(cursor, table, wp): order is the iteration order of
\* the set master_fids_missing.  Result: the relation and the rewritten table.
remap_table_master_to_wp(rel, t, order) ==
    LET new_wp_fid == NextWpFid(rel)
        entries == [i \in 1..Len(order) |-> [m |-> order[i], w |-> new_wp_fid + i - 1]]
        ins == InsertEntries(rel, entries)
        mapping == {<<r.id, (CHOOSE e \in ins.rel : e.m = r.id).w>> : r \in t}
    IN IF ~ins.ok THEN [ok |-> FALSE, rel |-> ins.rel, table |-> t, new |-> ins.rel \ rel]
       ELSE [ok |-> TRUE, rel |-> ins.rel, table |-> RewriteKeys(t, mapping), new |-> ins.rel \ rel]

\* mutant: every row of the table is taken as missing from the relation
MasterFidsMissing_All(rel, t) == Ids(t)

\* master_fids_missing: SELECT pk FROM t LEFT JOIN remap ... WHERE mapped.wp_fid IS NULL
MasterFidsMissing(rel, t) == Ids(t) \ MasterFids(rel)

\* remap_table_wp_to_master(cursor, table, wp, new_master_fid): order is the
\* iteration order of the set wp_fids_missing.
remap_table_wp_to_master(rel, t, new_master_fid, order) ==
    LET entries == [i \in 1..Len(order) |-> [m |-> new_master_fid + i - 1, w |-> order[i]]]
        ins == InsertEntries(rel, entries)
        mapping == {<<r.id, (CHOOSE e \in ins.rel : e.w = r.id).m>> : r \in t}
    IN IF ~ins.ok THEN [ok |-> FALSE, rel |-> ins.rel, table |-> t, new |-> ins.rel \ rel]
       ELSE [ok |-> TRUE, rel |-> ins.rel, table |-> RewriteKeys(t, mapping), new |-> ins.rel \ rel]

WpFidsMissing(rel, t) == Ids(t) \ WpFids(rel)

\* ---------------------------------------------------------- configuration
\* wp_config.wp_names, in configuration order
wp_names == <<"A", "B">>

\* WPName.value of a work package: a scalar, a list of scalars, or a WKT geometry
\* (vals: the scalar, the members of the list, or the geometries the WKT intersects)
WPValue(meth, wp) ==
    IF meth = FILTER_METHOD_GEOMETRY
    THEN [kind |-> "wkt", vals |-> IF wp = "A" THEN {1} ELSE {2}]
    ELSE IF wp = "A" THEN [kind |-> "scalar", vals |-> {1}]
         ELSE [kind |-> "list", vals |-> {1, 2}]

\* ----------------------------------------------------------------- filter
\* ST_Intersects(GeomFromGPB(geometry), ST_GeomFromText(wkt)): 1, 0, or -1 (unknown)
\* when the row has no geometry
ST_Intersects(g, value) == IF g = Null THEN -1 ELSE IF g \in value.vals THEN 1 ELSE 0

\* SQL NOT on an integer
SqlNot(x) == IF x = 0 THEN 1 ELSE 0

\* mutant: without the DELETE ... WHERE column IS NULL
FilterRows_KeepNull(t, meth, value) ==
    IF meth = FILTER_METHOD_GEOMETRY
    THEN {r \in t : SqlNot(ST_Intersects(r.k, value)) # 1}
    ELSE {r \in t : r.k = Null \/ r.k \in value.vals}

\* the rows the DELETE statements of Stage 2 leave in the copy of the master
FilterRows(t, meth, value) ==
    IF meth = FILTER_METHOD_GEOMETRY
    THEN {r \in t : SqlNot(ST_Intersects(r.k, value)) # 1}
    ELSE LET notnull == {r \in t : ~(r.k = Null)}
         IN IF value.kind = "scalar"
            THEN {r \in notnull : ~(r.k # MaxOf(value.vals))}
            ELSE {r \in notnull : ~(r.k \notin value.vals)}

\* ------------------------------------------------------- changeset engine
\* mutant: updated rows are not reported
create_changeset_NoUpdates(a, b) ==
    [ins |-> {r \in b : r.id \notin Ids(a)},
     del |-> {r \in a : r.id \notin Ids(b)},
     upd |-> {}]

\* mutant: every row of b is reported as inserted
create_changeset_Full(a, b) == [ins |-> b, del |-> {}, upd |-> {}]

\* geodiff.create_changeset(a, b): rows inserted, deleted and updated from a to b
create_changeset(a, b) ==
    [ins |-> {r \in b : r.id \notin Ids(a)},
     del |-> {r \in a : r.id \notin Ids(b)},
     upd |-> {[old |-> r, new |-> RowOf(b, r.id)] : r \in {x \in a : x.id \in Ids(b) /\ RowOf(b, x.id) # x}}]

ChangesetIsEmpty(cs) == cs.ins = {} /\ cs.del = {} /\ cs.upd = {}

\* mutant: a DELETE of a row theirs deleted as well is kept
create_rebased_changeset_KeepDeleteDelete(ours, theirs) ==
    [ins |-> ours.ins,
     insCount |-> Cardinality(ours.ins),
     del |-> ours.del,
     upd |-> {u \in ours.upd : u.old.id \notin Ids(theirs.del)}]

\* mutant: the rows theirs deleted are inserted again
create_rebased_changeset_Reimport(ours, theirs) ==
    [ins |-> ours.ins \cup theirs.del,
     insCount |-> Cardinality(ours.ins \cup theirs.del),
     del |-> ours.del,
     upd |-> ours.upd]

\* geodiff.create_rebased_changeset_ex(base, ours, theirs): the changes of ours
\* expressed on top of theirs.  delete/delete: dropped; update of a row theirs
\* deleted: dropped; update/update: column-wise, ours wins on a column both
\* changed; insert/insert on one key: ours moves to the first free key above
\* the keys theirs inserted.
create_rebased_changeset(ours, theirs) ==
    LET tIns == Ids(theirs.ins)
        tDel == Ids(theirs.del)
        tUpd == {u.old.id : u \in theirs.upd}
        tNew(i) == (CHOOSE u \in theirs.upd : u.old.id = i).new
        clash == {r \in ours.ins : r.id \in tIns}
        rank(r) == Cardinality({x \in clash : x.id < r.id})
        moved(r) == IF r \in clash THEN [r EXCEPT !.id = MaxOf(tIns) + 1 + rank(r)] ELSE r
        merged(u) ==
            IF u.old.id \notin tUpd THEN u
            ELSE [old |-> tNew(u.old.id),
                  new |-> [id |-> u.new.id,
                           k |-> IF u.new.k # u.old.k THEN u.new.k ELSE tNew(u.old.id).k]]
    IN [ins |-> {moved(r) : r \in ours.ins},
        insCount |-> Cardinality(ours.ins),
        del |-> {IF r.id \in tUpd THEN tNew(r.id) ELSE r : r \in {x \in ours.del : x.id \notin tDel}},
        upd |-> {merged(u) : u \in {x \in ours.upd : x.old.id \notin tDel}}]

\* mutant: the DELETE entries of a changeset are not applied
apply_changeset_KeepDeleted(t, cs) ==
    LET kept == {r \in t : r.id \notin {u.old.id : u \in cs.upd}}
    IN [ok |-> TRUE, table |-> kept \cup {u.new : u \in cs.upd} \cup cs.ins]

\* geodiff.apply_changeset(db, changeset): fails when an entry does not fit the table
apply_changeset(t, cs) ==
    LET kept == {r \in t : r.id \notin Ids(cs.del) /\ r.id \notin {u.old.id : u \in cs.upd}}
        fits == /\ \A r \in cs.del : r.id \in Ids(t)
                /\ \A u \in cs.upd : u.old.id \in Ids(t)
                /\ \A r \in cs.ins : r.id \notin Ids(t)
                /\ Cardinality(Ids(cs.ins)) = cs.insCount
    IN [ok |-> fits, table |-> kept \cup {u.new : u \in cs.upd} \cup cs.ins]

\* ------------------------------------------------------------------ state
InitialMasters ==
    UNION {[1..n -> NonNullKVals] : n \in 1..InitRows}

TableOf(f) == {[id |-> i, k |-> f[i]] : i \in DOMAIN f}

Init ==
    /\ method \in Methods
    /\ base = NoDir
    /\ \E f \in InitialMasters :
          input = [NoDir EXCEPT !.hasMaster = TRUE, !.master = TableOf(f)]
    /\ output = NoDir
    /\ tmp = NoTmp
    /\ pc = "idle"
    /\ old_wp_names = <<>>
    /\ idx = 0
    /\ runs = 0
    /\ medits = 0
    /\ wedits = 0
    /\ ev = NoEv
    /\ call = NoCall
    /\ ret = NoRet

\* ------------------------------------------------------------- user edits
\* the key SQLite gives a row inserted without an explicit key
NextRowId(t) == IF t = {} THEN 1 ELSE MaxOf(Ids(t)) + 1

CanEditMaster == pc = "idle" /\ base.hasMaster /\ medits < MaxMasterEdits

CanEditWp == pc = "idle" /\ base.hasMaster /\ wedits < MaxWpEdits

MasterInsert ==
    /\ CanEditMaster
    /\ NextRowId(input.master) <= MaxMasterFid
    /\ \E k \in KVals :
          input' = [input EXCEPT !.master = @ \cup {[id |-> NextRowId(input.master), k |-> k]}]
    /\ medits' = medits + 1
    /\ UNCHANGED <<method, base, output, tmp, pc, old_wp_names, idx, runs, wedits, ev, call, ret>>

MasterDelete ==
    /\ CanEditMaster
    /\ \E r \in input.master : input' = [input EXCEPT !.master = @ \ {r}]
    /\ medits' = medits + 1
    /\ UNCHANGED <<method, base, output, tmp, pc, old_wp_names, idx, runs, wedits, ev, call, ret>>

MasterUpdate ==
    /\ CanEditMaster
    /\ \E r \in input.master : \E k \in KVals \ {r.k} :
          input' = [input EXCEPT !.master = (@ \ {r}) \cup {[r EXCEPT !.k = k]}]
    /\ medits' = medits + 1
    /\ UNCHANGED <<method, base, output, tmp, pc, old_wp_names, idx, runs, wedits, ev, call, ret>>

WpInsert ==
    /\ CanEditWp
    /\ \E w \in input.wps : \E k \in NonNullKVals :
          input' = [input EXCEPT !.wp[w] = @ \cup {[id |-> NextRowId(input.wp[w]), k |-> k]}]
    /\ wedits' = wedits + 1
    /\ UNCHANGED <<method, base, output, tmp, pc, old_wp_names, idx, runs, medits, ev, call, ret>>

WpDelete ==
    /\ CanEditWp
    /\ \E w \in input.wps : \E r \in input.wp[w] : input' = [input EXCEPT !.wp[w] = @ \ {r}]
    /\ wedits' = wedits + 1
    /\ UNCHANGED <<method, base, output, tmp, pc, old_wp_names, idx, runs, medits, ev, call, ret>>

WpUpdate ==
    /\ CanEditWp
    /\ \E w \in input.wps : \E r \in input.wp[w] : \E k \in NonNullKVals \ {r.k} :
          input' = [input EXCEPT !.wp[w] = (@ \ {r}) \cup {[r EXCEPT !.k = k]}]
    /\ wedits' = wedits + 1
    /\ UNCHANGED <<method, base, output, tmp, pc, old_wp_names, idx, runs, medits, ev, call, ret>>

\* ---------------------------------------------------- make_work_packages
\* SELECT max(fid) of the table in output/master.gpkg, plus 1; 1 for an empty table
NewMasterFid(master) == IF master = {} THEN FirstMasterFid ELSE MaxOf(Ids(master)) + 1

\* mutant: Stage 2 starts right after the prelude
AfterPrelude_SkipStage1(names) == "stage2"

\* for wp_name in old_wp_names: ... ; only then: for wp_name, wp_value, ... in wp_config.wp_names
AfterPrelude(names) == IF names = <<>> THEN "stage2" ELSE "stage1"

\* mutant: base/remap.db is not copied to output/
CopiedRemap_Forgotten(dir) == EmptyFiles

\* if os.path.exists(remap_db_base): shutil.copy(remap_db_base, remap_db_output)
CopiedRemap(dir) == IF dir.hasRemap THEN dir.remap ELSE EmptyFiles

\* mutant: the rebased changeset is never applied
Stage1Apply_Skipped(master, rebased) == [ok |-> TRUE, table |-> master]

\* if os.path.isfile(wp_rebased_changeset): apply it to output/master.gpkg, else continue
Stage1Apply(master, rebased) ==
    IF ChangesetIsEmpty(rebased) THEN [ok |-> TRUE, table |-> master]
    ELSE apply_changeset(master, rebased)

\* mutant: only the missing remap.db is reported
RemapDbCheckRaises_OnlyMissing(names, hasRemap) == names # <<>> /\ ~hasRemap

\* if old_wp_names and not exists(remap_db_base): raise; if not old_wp_names and
\* exists(remap_db_base): raise
RemapDbCheckRaises(names, hasRemap) ==
    (names # <<>> /\ ~hasRemap) \/ (names = <<>> /\ hasRemap)

\* mutant: output/ is not purged
PurgedDir_Kept(dir) == dir

\* if os.path.exists(output_dir): shutil.rmtree(output_dir); os.makedirs(output_dir)
PurgedDir(dir) == NoDir

\* mutant: the remap is run on the file of base/ or input/ itself
SourceFileAfterRemap_InPlace(dir, wp_name, remapped) == [dir EXCEPT !.wp[wp_name] = remapped]

\* the file of base/ or input/ after Stage 1 has remapped it: the remap runs on the
\* copy it made under tmp/ (wp_gpkg_base, wp_gpkg_input), the file stays as it is
SourceFileAfterRemap(dir, wp_name, remapped) == dir

\* mutant: the entries inserted before the error stay in remap.db
CommittedRel_Partial(before, r) == r.rel

\* the relation after c.execute("BEGIN") ... c.execute("COMMIT") around a remap call:
\* when the call raises, COMMIT is not reached and the connection, attached remap.db
\* included, is rolled back
CommittedRel(before, r) == IF r.ok THEN r.rel ELSE before

\* the table of the connection after the same transaction
CommittedTable(before, r) == IF r.ok THEN r.table ELSE before

\* purge output/ and tmp/, scan base/, copy the input master, check and copy remap.db
Prelude ==
    /\ pc = "idle"
    /\ runs < MaxRuns
    /\ runs' = runs + 1
    /\ tmp' = NoTmp
    /\ \E names \in Orders(base.wps) :
          /\ old_wp_names' = names
          /\ IF RemapDbCheckRaises(names, base.hasRemap)
             THEN /\ pc' = "failed"
                  /\ output' = [PurgedDir(output) EXCEPT !.hasMaster = TRUE, !.master = input.master]
             ELSE /\ pc' = AfterPrelude(names)
                  /\ output' = [PurgedDir(output) EXCEPT !.hasMaster = TRUE, !.master = input.master,
                                                        !.hasRemap = base.hasRemap, !.rels = base.rels,
                                                        !.remap = CopiedRemap(base)]
    /\ idx' = 1
    /\ ev' = [NoEv EXCEPT !.op = "prelude"]
    /\ UNCHANGED <<method, base, input, medits, wedits, call, ret>>

\* one iteration of the Stage 1 loop, for old_wp_names[idx]
Stage1Iteration ==
    /\ pc = "stage1"
    /\ idx <= Len(old_wp_names)
    /\ LET wp_name == old_wp_names[idx]
           new_master_fid == NewMasterFid(output.master)
           rel0 == output.remap[remap_table_name(wp_name)]
           e0 == [NoEv EXCEPT !.op = "stage1", !.wp = wp_name, !.new_fid = new_master_fid,
                              !.masterIds = Ids(output.master), !.relBefore = rel0]
           next == IF idx = Len(old_wp_names) THEN "stage2" ELSE "stage1"
       IN IF wp_name \notin input.wps
          THEN \* shutil.copy of the missing input file raises
               /\ pc' = "failed"
               /\ tmp' = [tmp EXCEPT !.wps = @ \cup {wp_name}, !.base[wp_name] = base.wp[wp_name]]
               /\ ev' = e0
               /\ UNCHANGED <<output, base, input>>
          ELSE \E ob \in Orders(WpFidsMissing(rel0, base.wp[wp_name])) :
               LET rb == remap_table_wp_to_master(rel0, base.wp[wp_name], new_master_fid, ob)
               IN \E oi \in Orders(WpFidsMissing(rb.rel, input.wp[wp_name])) :
                  LET ri == remap_table_wp_to_master(rb.rel, input.wp[wp_name], new_master_fid, oi)
                      wp_diff == create_changeset(rb.table, ri.table)
                      master_diff == create_changeset(rb.table, output.master)
                      rebased == create_rebased_changeset(wp_diff, master_diff)
                      ap == Stage1Apply(output.master, rebased)
                      e1 == [e0 EXCEPT !.addedBase = rb.new, !.addedInput = ri.new]
                  IN IF ~rb.ok
                     THEN \* the INSERT raised: the transaction of the base copy is not committed
                          /\ pc' = "failed"
                          /\ tmp' = [tmp EXCEPT !.wps = @ \cup {wp_name},
                                                !.base[wp_name] = CommittedTable(base.wp[wp_name], rb),
                                                !.input[wp_name] = input.wp[wp_name]]
                          /\ output' = [output EXCEPT !.remap[remap_table_name(wp_name)] = CommittedRel(rel0, rb)]
                          /\ ev' = e0
                          /\ UNCHANGED <<base, input>>
                     ELSE IF ~ri.ok
                     THEN \* the base copy is committed, the transaction of the input copy is not
                          /\ pc' = "failed"
                          /\ tmp' = [tmp EXCEPT !.wps = @ \cup {wp_name}, !.base[wp_name] = rb.table,
                                                !.input[wp_name] = CommittedTable(input.wp[wp_name], ri)]
                          /\ output' = [output EXCEPT !.rels = @ \cup {remap_table_name(wp_name)},
                                                      !.remap[remap_table_name(wp_name)] = CommittedRel(rb.rel, ri)]
                          /\ ev' = [e0 EXCEPT !.addedBase = rb.new]
                          /\ base' = SourceFileAfterRemap(base, wp_name, rb.table)
                          /\ UNCHANGED input
                     ELSE /\ tmp' = [tmp EXCEPT !.wps = @ \cup {wp_name}, !.base[wp_name] = rb.table,
                                                !.input[wp_name] = ri.table]
                          /\ base' = SourceFileAfterRemap(base, wp_name, rb.table)
                          /\ input' = SourceFileAfterRemap(input, wp_name, ri.table)
                          /\ IF ~ap.ok
                             THEN /\ pc' = "failed"
                                  /\ output' = [output EXCEPT !.rels = @ \cup {remap_table_name(wp_name)}, !.remap[remap_table_name(wp_name)] = ri.rel]
                                  /\ ev' = e1
                             ELSE /\ pc' = next
                                  /\ output' = [output EXCEPT !.rels = @ \cup {remap_table_name(wp_name)}, !.remap[remap_table_name(wp_name)] = ri.rel,
                                                              !.master = ap.table]
                                  /\ ev' = [e1 EXCEPT !.applied = ~ChangesetIsEmpty(rebased)]
    /\ idx' = IF idx = Len(old_wp_names) THEN 1 ELSE idx + 1
    /\ UNCHANGED <<method, old_wp_names, runs, medits, wedits, call, ret>>

\* one iteration of the Stage 2 loop, for wp_names[idx]
Stage2Iteration ==
    /\ pc = "stage2"
    /\ idx <= Len(wp_names)
    /\ LET wp_name == wp_names[idx]
           rel0 == output.remap[remap_table_name(wp_name)]
           filtered == FilterRows(output.master, method, WPValue(method, wp_name))
       IN \E order \in Orders(MasterFidsMissing(rel0, filtered)) :
          LET r == remap_table_master_to_wp(rel0, filtered, order)
          IN IF ~r.ok
             THEN /\ pc' = "failed"
                  /\ output' = [output EXCEPT !.wps = @ \cup {wp_name},
                                              !.wp[wp_name] = CommittedTable(output.master, r),
                                              !.hasRemap = TRUE,
                                              !.remap[remap_table_name(wp_name)] = CommittedRel(rel0, r)]
                  /\ ev' = [NoEv EXCEPT !.op = "stage2", !.wp = wp_name, !.relBefore = rel0]
             ELSE /\ pc' = IF idx = Len(wp_names) THEN "done" ELSE "stage2"
                  /\ output' = [output EXCEPT !.wps = @ \cup {wp_name}, !.wp[wp_name] = r.table,
                                              !.hasRemap = TRUE, !.rels = @ \cup {remap_table_name(wp_name)},
                                              !.remap[remap_table_name(wp_name)] = r.rel]
                  /\ ev' = [NoEv EXCEPT !.op = "stage2", !.wp = wp_name, !.relBefore = rel0,
                                        !.masterIds = Ids(output.master), !.added = r.new, !.kept = filtered]
    /\ idx' = idx + 1
    /\ UNCHANGED <<method, base, input, tmp, old_wp_names, runs, medits, wedits, call, ret>>

\* the caller makes the output of a run the base/ and input/ of the next one
PrepareNextRun ==
    /\ pc = "done"
    /\ runs < MaxRuns
    /\ base' = [output EXCEPT !.hasRemap = output.hasRemap]
    /\ input' = [output EXCEPT !.hasRemap = FALSE, !.rels = {}, !.remap = EmptyFiles]
    /\ pc' = "idle"
    /\ ev' = [NoEv EXCEPT !.op = "prepare"]
    /\ UNCHANGED <<method, output, tmp, old_wp_names, idx, runs, medits, wedits, call, ret>>

\* base/ as the caller may hand it over: the work packages' files without
\* remap.db, or remap.db without any work package's file
BaseWithoutRemapDb ==
    /\ pc = "idle"
    /\ base.hasRemap
    /\ base.wps # {}
    /\ base' = [base EXCEPT !.hasRemap = FALSE, !.rels = {}, !.remap = EmptyFiles]
    /\ UNCHANGED <<method, input, output, tmp, pc, old_wp_names, idx, runs, medits, wedits, ev, call, ret>>

BaseWithoutWorkPackages ==
    /\ pc = "idle"
    /\ base.hasRemap
    /\ base.wps # {}
    /\ base' = [base EXCEPT !.wps = {}, !.wp = EmptyFiles]
    /\ UNCHANGED <<method, input, output, tmp, pc, old_wp_names, idx, runs, medits, wedits, ev, call, ret>>

Next ==
    \/ MasterInsert
    \/ MasterDelete
    \/ MasterUpdate
    \/ WpInsert
    \/ WpDelete
    \/ WpUpdate
    \/ Prelude
    \/ Stage1Iteration
    \/ Stage2Iteration
    \/ PrepareNextRun
    \/ BaseWithoutRemapDb
    \/ BaseWithoutWorkPackages

Spec == Init /\ [][Next]_vars

TypeOK ==
    /\ method \in Methods
    /\ pc \in {"idle", "stage1", "stage2", "done", "failed"}
    /\ runs \in 0..MaxRuns

\* ------------------------------------------- functions called on their own
\* the program at rest, while one of its functions is called on its own
MainAtRest ==
    /\ method = FILTER_METHOD_COLUMN
    /\ base = NoDir
    /\ input = NoDir
    /\ output = NoDir
    /\ tmp = NoTmp
    /\ pc = "idle"
    /\ old_wp_names = <<>>
    /\ idx = 0
    /\ runs = 0
    /\ medits = 0
    /\ wedits = 0
    /\ ev = NoEv

\* Python's None
None == "None"

\* ---------------------------------------------------------- _table_pkey
\* bounds: columns of a table, largest key of a row
MaxColumns == 3

MaxKey == 2

ColumnNames == {"fid", "objectid", "name", "geometry"}

\* the positions of a list
Positions(l) == 1..Len(l)

\* columns that "pragma table_info" flags as part of the primary key (row[5] # 0)
PkColumns(table_info) == {i \in Positions(table_info) : table_info[i].pk # 0}

\* what "pragma table_info" may answer: one row per column, with its name (row[1]) and
\* its position in the primary key (row[5]), 0 for a column that is not part of it
TableInfos ==
    UNION {{ti \in [1..n -> [name : ColumnNames, pk : 0..n]] :
               /\ \A i, j \in 1..n : i # j => ti[i].name # ti[j].name
               /\ \A i, j \in PkColumns(ti) : i # j => ti[i].pk # ti[j].pk
               /\ {ti[i].pk : i \in PkColumns(ti)} = 1..Cardinality(PkColumns(ti))}
           : n \in 1..MaxColumns}

RECURSIVE table_pkey_loop(_, _, _)
\* for row in cursor.execute("pragma table_info(...)"): if row[5]: ...
table_pkey_loop(table_info, i, pkey_column_name) ==
    IF i > Len(table_info)
    THEN [raised |-> "none", value |-> pkey_column_name]
    ELSE IF table_info[i].pk # 0
         THEN IF pkey_column_name = None
              THEN table_pkey_loop(table_info, i + 1, table_info[i].name)
              ELSE [raised |-> "ValueError", value |-> None]
         ELSE table_pkey_loop(table_info, i + 1, pkey_column_name)

\* _table_pkey(cursor, table_name)
table_pkey(table_info) == table_pkey_loop(table_info, 1, None)

\* c.execute("SELECT max(fid) FROM <table>"): the statement names the column fid.
\* A table without such a column makes SQLite raise; rows hold NULL in the columns
\* that are not part of the key
SelectMaxFid(table_info, keys) ==
    IF \A i \in Positions(table_info) : table_info[i].name # "fid"
    THEN [raised |-> "OperationalError", value |-> Null]
    ELSE LET c == CHOOSE i \in Positions(table_info) : table_info[i].name = "fid"
         IN IF table_info[c].pk # 0 /\ keys # {}
            THEN [raised |-> "none", value |-> MaxOf(keys)]
            ELSE [raised |-> "none", value |-> Null]

\* new_master_fid of Stage 1: 1 for an empty table, else the maximum plus one
Stage1NewMasterFid(table_info, keys) ==
    LET q == SelectMaxFid(table_info, keys)
    IN IF q.raised # "none" THEN q
       ELSE [raised |-> "none",
             value |-> IF q.value = Null THEN FirstMasterFid ELSE q.value + 1]

PkeyInit ==
    /\ MainAtRest
    /\ \E ti \in TableInfos, keys \in SUBSET (1..MaxKey) :
          call = [fn |-> "table", table_info |-> ti, keys |-> keys]
    /\ ret = NoRet

\* a remap function looks up the name of the key column
LookupPkey ==
    /\ call.fn = "table"
    /\ ret = NoRet
    /\ LET r == table_pkey(call.table_info)
       IN ret' = [fn |-> "_table_pkey", raised |-> r.raised, value |-> r.value]
    /\ UNCHANGED <<mainvars, call>>

\* Stage 1 computes the first master ID to assign
QueryNewMasterFid ==
    /\ call.fn = "table"
    /\ ret = NoRet
    /\ LET r == Stage1NewMasterFid(call.table_info, call.keys)
       IN ret' = [fn |-> "new_master_fid", raised |-> r.raised, value |-> r.value]
    /\ UNCHANGED <<mainvars, call>>

PkeyNext ==
    \/ LookupPkey
    \/ QueryNewMasterFid

PkeySpec == PkeyInit /\ [][PkeyNext]_vars

\* ------------------------------------------------- load_config_from_yaml
\* bound: entries of the lists "work-packages" and "tables"
MaxEntries == 1

\* a YAML mapping is a function from the keys it holds
HasKey(d, k) == k \in DOMAIN d

WpEntryKeys == {"name", "value", "mergin-project"}

TableEntryKeys == {"name", "method", "filter-column-name"}

RootKeys == {"file", "work-packages", "tables"}

WpEntries == {[k \in S |-> IF k = "name" THEN "A" ELSE IF k = "value" THEN "1" ELSE "project"]
              : S \in SUBSET WpEntryKeys}

TableEntries ==
    {[k \in S |-> IF k = "name" THEN "table" ELSE IF k = "method" THEN m ELSE "column"]
     : S \in SUBSET TableEntryKeys, m \in Methods}

ListsOf(S) == UNION {[1..n -> S] : n \in 0..MaxEntries}

\* what yaml.safe_load may return for a file that parses
RootYamls ==
    {[k \in S |-> IF k = "file" THEN "master.gpkg" ELSE IF k = "work-packages" THEN wl ELSE tl]
     : S \in SUBSET RootKeys, wl \in ListsOf(WpEntries), tl \in ListsOf(TableEntries)}

\* table_yaml.get("filter-column-name")
Get(d, k) == IF HasKey(d, k) THEN d[k] ELSE None

\* WPName(name_yaml["name"], name_yaml["value"], name_yaml["mergin-project"])
WPNameOf(name_yaml) ==
    [name |-> name_yaml["name"], value |-> name_yaml["value"],
     mergin_project |-> name_yaml["mergin-project"]]

\* WPTable(table_yaml["name"], table_yaml["method"], table_yaml.get("filter-column-name"))
WPTableOf(table_yaml) ==
    [name |-> table_yaml["name"], filter_method |-> table_yaml["method"],
     filter_column_name |-> Get(table_yaml, "filter-column-name")]

Raised(error) == [raised |-> error, master_gpkg |-> None, wp_names |-> <<>>, wp_tables |-> <<>>]

\* load_config_from_yaml(config_yaml): a subscript of a mapping raises KeyError for
\* a key the mapping does not hold
load_config_from_yaml(parses, root_yaml) ==
    IF ~parses THEN Raised("ValueError")
    ELSE IF ~HasKey(root_yaml, "file") THEN Raised("KeyError")
    ELSE IF ~HasKey(root_yaml, "work-packages") THEN Raised("KeyError")
    ELSE IF \E i \in Positions(root_yaml["work-packages"]) :
               \E k \in WpEntryKeys : ~HasKey(root_yaml["work-packages"][i], k)
    THEN Raised("KeyError")
    ELSE IF ~HasKey(root_yaml, "tables") THEN Raised("KeyError")
    ELSE IF \E i \in Positions(root_yaml["tables"]) :
               \E k \in {"name", "method"} : ~HasKey(root_yaml["tables"][i], k)
    THEN Raised("KeyError")
    ELSE [raised |-> "none",
          master_gpkg |-> root_yaml["file"],
          wp_names |-> [i \in Positions(root_yaml["work-packages"]) |->
                           WPNameOf(root_yaml["work-packages"][i])],
          wp_tables |-> [i \in Positions(root_yaml["tables"]) |->
                            WPTableOf(root_yaml["tables"][i])]]

ConfigInit ==
    /\ MainAtRest
    /\ \/ \E r \in RootYamls : call = [fn |-> "yaml", parses |-> TRUE, root_yaml |-> r]
       \/ call = [fn |-> "yaml", parses |-> FALSE, root_yaml |-> <<>>]
    /\ ret = NoRet

LoadConfig ==
    /\ call.fn = "yaml"
    /\ ret = NoRet
    /\ LET r == load_config_from_yaml(call.parses, call.root_yaml)
       IN ret' = [fn |-> "load_config_from_yaml", raised |-> r.raised,
                  master_gpkg |-> r.master_gpkg, wp_names |-> r.wp_names,
                  wp_tables |-> r.wp_tables]
    /\ UNCHANGED <<mainvars, call>>

ConfigNext ==
    \/ LoadConfig

ConfigSpec == ConfigInit /\ [][ConfigNext]_vars

\* ------------------------------------- the rewrite of the keys, step by step
\* bound: rows of the table
MaxRows == 3

\* keys a table may hold: SQLite accepts any integer as the key of a row
TableKeys == (0 - MaxKey)..MaxKey

\* keys the remap table may map a row to
MappedKeys == {1, 2, FirstWpFid}

\* the list "mapping" of the remap functions: a mapped key for every row of the table,
\* no two rows mapped to the same key (wp_fid is UNIQUE, master_fid the primary key)
Mappings(keys) == {m \in [keys -> MappedKeys] : \A i, j \in keys : i # j => m[i] # m[j]}

\* rows other than row whose key is now key
RowsHolding(cur, row, key) == {j \in (DOMAIN cur) \ {row} : cur[j] = key}

RewriteInit ==
    /\ MainAtRest
    /\ \E keys \in (SUBSET TableKeys) \ {{}} :
          /\ Cardinality(keys) <= MaxRows
          /\ \E m \in Mappings(keys) :
                call = [fn |-> "rewrite", keys |-> keys, mapping |-> m]
          /\ ret = [fn |-> "rewrite", phase |-> "negate", cur |-> [k \in keys |-> k],
                    pending |-> keys, raised |-> FALSE]

\* UPDATE t SET pk = -pk reaches one more row, in the order SQLite visits the rows;
\* the key is checked against the other rows as each row is written
NegateRow ==
    /\ call.fn = "rewrite"
    /\ ret.phase = "negate"
    /\ ~ret.raised
    /\ \E row \in ret.pending :
          LET new == 0 - ret.cur[row]
              left == ret.pending \ {row}
          IN ret' = IF RowsHolding(ret.cur, row, new) # {}
                    THEN [ret EXCEPT !.raised = TRUE]
                    ELSE [ret EXCEPT !.cur[row] = new,
                                     !.pending = IF left = {} THEN call.keys ELSE left,
                                     !.phase = IF left = {} THEN "map" ELSE "negate"]
    /\ UNCHANGED <<mainvars, call>>

\* UPDATE t SET pk = ? WHERE pk = ? for one more pair of the mapping
MapRow ==
    /\ call.fn = "rewrite"
    /\ ret.phase = "map"
    /\ ~ret.raised
    /\ \E from \in ret.pending :
          LET to == call.mapping[from]
              hit == {j \in call.keys : ret.cur[j] = 0 - from}
              left == ret.pending \ {from}
              after == [j \in call.keys |-> IF j \in hit THEN to ELSE ret.cur[j]]
          IN ret' = IF \E j \in hit : RowsHolding(ret.cur, j, to) # {}
                    THEN [ret EXCEPT !.raised = TRUE]
                    ELSE [ret EXCEPT !.cur = after, !.pending = left,
                                     !.phase = IF left = {} THEN "done" ELSE "map"]
    /\ UNCHANGED <<mainvars, call>>

RewriteNext ==
    \/ NegateRow
    \/ MapRow

RewriteSpec == RewriteInit /\ [][RewriteNext]_vars

\* ------------------------------------------ one transaction of a stage
\* local IDs a work package's file may hold: mapped ones and one its user chose
TxWpFids == {FirstWpFid, FirstWpFid + 1, 1}

\* relations a (table, work package) pair may have in remap.db
RemapRelations ==
    {rel \in SUBSET [m : 1..MaxMasterFid, w : TxWpFids] :
        \A e1, e2 \in rel : (e1.m = e2.m \/ e1.w = e2.w) => e1 = e2}

\* tables whose rows have their keys in ids
TablesOver(ids) ==
    UNION {{TableOf(f) : f \in [S -> NonNullKVals]} : S \in SUBSET ids}

\* "pragma table_info" of a table that wp_config.wp_tables lists after the modelled one
LaterTables ==
    {<<[name |-> "fid", pk |-> 1]>>,
     <<[name |-> "fid", pk |-> 1], [name |-> "objectid", pk |-> 2]>>,
     <<[name |-> "name", pk |-> 0]>>}

\* the remap call for the later table raises: ValueError of _table_pkey, or the
\* AttributeError of escape_double_quotes(None)
LaterTableRaises(table_info) ==
    LET r == table_pkey(table_info)
    IN r.raised # "none" \/ r.value = None

\* for wp_table in wp_config.wp_tables: the call for the modelled table, then the
\* call for the later one; ok is FALSE when one of them raised
InTransaction(r, later) ==
    IF r.ok /\ LaterTableRaises(later) THEN [r EXCEPT !.ok = FALSE] ELSE r

TransactionInit ==
    /\ MainAtRest
    /\ \E rel \in RemapRelations, later \in LaterTables :
          \/ \E t \in TablesOver(TxWpFids), fid \in 1..MaxMasterFid :
                call = [fn |-> "transaction", stage |-> 1, rel |-> rel, table |-> t,
                        new_master_fid |-> fid, later |-> later]
          \/ \E t \in TablesOver(1..MaxMasterFid) :
                call = [fn |-> "transaction", stage |-> 2, rel |-> rel, table |-> t,
                        new_master_fid |-> 0, later |-> later]
    /\ ret = NoRet

\* BEGIN, remap_table_wp_to_master for every table, COMMIT, on a copy under tmp/
Stage1Transaction ==
    /\ call.fn = "transaction"
    /\ call.stage = 1
    /\ ret = NoRet
    /\ \E order \in Orders(WpFidsMissing(call.rel, call.table)) :
          LET r == InTransaction(remap_table_wp_to_master(call.rel, call.table,
                                                          call.new_master_fid, order),
                                 call.later)
          IN ret' = [fn |-> "transaction", raised |-> ~r.ok, inside |-> r,
                     rel |-> CommittedRel(call.rel, r),
                     table |-> CommittedTable(call.table, r)]
    /\ UNCHANGED <<mainvars, call>>

\* BEGIN, the DELETE statements and remap_table_master_to_wp for every table, COMMIT,
\* on the copy of the master that becomes output/<wp>.gpkg
Stage2Transaction ==
    /\ call.fn = "transaction"
    /\ call.stage = 2
    /\ ret = NoRet
    /\ LET filtered == FilterRows(call.table, FILTER_METHOD_COLUMN,
                                  WPValue(FILTER_METHOD_COLUMN, "A"))
       IN \E order \in Orders(MasterFidsMissing(call.rel, filtered)) :
             LET r == InTransaction(remap_table_master_to_wp(call.rel, filtered, order),
                                    call.later)
             IN ret' = [fn |-> "transaction", raised |-> ~r.ok, inside |-> r,
                        rel |-> CommittedRel(call.rel, r),
                        table |-> CommittedTable(call.table, r)]
    /\ UNCHANGED <<mainvars, call>>

TransactionNext ==
    \/ Stage1Transaction
    \/ Stage2Transaction

TransactionSpec == TransactionInit /\ [][TransactionNext]_vars

\* --------------------------------- the files of the workspace, run after run
\* configurations of work packages the caller may pass
ConfiguredSets == SUBSET AllWPs

\* the files a successful run leaves in output/: one per configured work package,
\* and remap.db when it was copied from base/ or created by the ATTACH of a
\* Stage 1 or Stage 2 connection
OutputFiles(baseWps, baseHasRemap, configWps) ==
    [wps |-> configWps, hasRemap |-> baseHasRemap \/ baseWps # {} \/ configWps # {}]

WorkspaceInit ==
    /\ MainAtRest
    /\ \E n \in 1..MaxRuns : \E configs \in [1..n -> ConfiguredSets] :
          call = [fn |-> "workspace", configs |-> configs]
    /\ ret = [fn |-> "workspace", run |-> 0, wps |-> {}, hasRemap |-> FALSE, raised |-> FALSE]

\* a run whose base/ is the output/ of the run before it, under the next configuration
RunOnPreviousOutput ==
    /\ call.fn = "workspace"
    /\ ~ret.raised
    /\ ret.run < Len(call.configs)
    /\ \E names \in Orders(ret.wps) :
          ret' = IF RemapDbCheckRaises(names, ret.hasRemap)
                 THEN [ret EXCEPT !.run = @ + 1, !.raised = TRUE]
                 ELSE LET out == OutputFiles(ret.wps, ret.hasRemap, call.configs[ret.run + 1])
                      IN [ret EXCEPT !.run = @ + 1, !.wps = out.wps, !.hasRemap = out.hasRemap]
    /\ UNCHANGED <<mainvars, call>>

WorkspaceNext ==
    \/ RunOnPreviousOutput

WorkspaceSpec == WorkspaceInit /\ [][WorkspaceNext]_vars

\* ------------------------------------------------- names of the relations
\* bound: characters of a table's or a work package's name
MaxNameLen == 2

\* a name is a string of characters; an underscore and a double quote are among them
NameChars == {"a", "_", "\""}

Names == UNION {[1..n -> NameChars] : n \in 1..MaxNameLen}

RECURSIVE DoubledQuotes(_)
\* name.replace('"', '""')
DoubledQuotes(name) ==
    IF name = <<>> THEN <<>>
    ELSE IF Head(name) = "\"" THEN <<"\"", "\"">> \o DoubledQuotes(Tail(name))
    ELSE <<Head(name)>> \o DoubledQuotes(Tail(name))

\* escape_double_quotes(name)
escape_double_quotes(name) == <<"\"">> \o DoubledQuotes(name) \o <<"\"">>

\* remap_table_name(table_name, wp_name), with both names spelled out
RemapTableName(table_name, wp_name) ==
    <<"\"", "r", "e", "m", "a", "p", "\"", ".">> \o escape_double_quotes(table_name \o <<"_">> \o wp_name)

NamesInit ==
    /\ MainAtRest
    /\ \E t1, w1, t2, w2 \in Names :
          call = [fn |-> "names", t1 |-> t1, w1 |-> w1, t2 |-> t2, w2 |-> w2]
    /\ ret = NoRet

\* the names of the relations of two (table, work package) pairs
NameRelations ==
    /\ call.fn = "names"
    /\ ret = NoRet
    /\ ret' = [fn |-> "remap_table_name",
               first |-> RemapTableName(call.t1, call.w1),
               second |-> RemapTableName(call.t2, call.w2)]
    /\ UNCHANGED <<mainvars, call>>

NamesNext ==
    \/ NameRelations

NamesSpec == NamesInit /\ [][NamesNext]_vars

\* ---------------------------------------------------- push_mergin_project
\* bound: largest max_retries of a call
MaxRetries == 3

\* what one attempt (push_project_async, _wait, _finalize) may do: find nothing to
\* push (job is None), succeed, raise mergin.ClientError, raise another exception
PushOutcomes == {"nothing", "ok", "ClientError", "OtherError"}

\* mutant: the last retry is not made
RetryAllowed_OneLess(push_attempt, max_retries) == push_attempt < max_retries

\* if push_attempt <= max_retries: ... else: raise
RetryAllowed(push_attempt, max_retries) == push_attempt <= max_retries

PushInit ==
    /\ MainAtRest
    /\ \E n \in 0..MaxRetries, outcomes \in [1..(MaxRetries + 2) -> PushOutcomes] :
          call = [fn |-> "push", max_retries |-> n, outcomes |-> outcomes]
    /\ ret = [fn |-> "push", push_attempt |-> 1, attempts |-> 0, result |-> "running"]

\* one pass of the while loop
PushAttempt ==
    /\ call.fn = "push"
    /\ ret.result = "running"
    /\ ret.attempts < Len(call.outcomes)
    /\ LET outcome == call.outcomes[ret.attempts + 1]
           made == [ret EXCEPT !.attempts = @ + 1]
       IN ret' = IF outcome = "nothing" THEN [made EXCEPT !.result = "False"]
                 ELSE IF outcome = "ok" THEN [made EXCEPT !.result = "True"]
                 ELSE IF outcome = "OtherError" THEN [made EXCEPT !.result = "raised OtherError"]
                 ELSE IF RetryAllowed(ret.push_attempt, call.max_retries)
                      THEN [made EXCEPT !.push_attempt = @ + 1]
                      ELSE [made EXCEPT !.result = "raised ClientError"]
    /\ UNCHANGED <<mainvars, call>>

PushNext ==
    \/ PushAttempt

PushSpec == PushInit /\ [][PushNext]_vars

\* ------------------------------------------- run_wp_mergin_with_context
\* bound: largest number of configured work packages of a run
MaxTasks == 2

\* bound: largest max_workers of the two thread pools
MaxWorkers == 2

\* the master project directory among the locked directories; the project
\* directory of a work package is named by the position of the work package
MasterDir == 0

\* a work package with a file in work-packages/ that the configuration lacks
Unconfigured == MaxTasks + 1

\* the tasks of executor.map(fn, wp_config.wp_names), in submission order
TasksOf(c) == 1..c.wp_names

\* tasks a worker thread is running
RunningTasks(status) ==
    {w \in DOMAIN status : status[w] \notin {"queued", "done", "raised", "cancelled"}}

\* the pool takes the tasks from its queue in submission order, max_workers at once
MayStart(status, w, max_workers) ==
    /\ status[w] = "queued"
    /\ \A v \in DOMAIN status : v < w => status[v] # "queued"
    /\ Cardinality(RunningTasks(status)) < max_workers

\* mutant: the exception of a worker is dropped
ResultRaises_Ignored(status) == FALSE

\* the iterator of executor.map re-raises the exception of the task whose
\* result it hands out
ResultRaises(status) == status = "raised"

\* when the iterator raises, the futures not yet started are cancelled
CancelQueued(status) ==
    [w \in DOMAIN status |-> IF status[w] = "queued" THEN "cancelled" ELSE status[w]]

\* mutant: no lock is ever taken
NeedsLock_Never(skip_lock) == FALSE

\* if not ctx.skip_lock:
NeedsLock(skip_lock) == ~skip_lock

\* ProjectPadlock.unlock: del self.locked_projects[directory]
Unlocked(locked_projects, directory) == locked_projects \ {directory}

MerginInit ==
    /\ MainAtRest
    /\ \E n \in 1..MaxTasks, stored \in SUBSET (1..MaxTasks \cup {Unconfigured}),
          k \in 1..MaxWorkers, dry \in BOOLEAN, skip \in BOOLEAN :
          call = [fn |-> "run", wp_names |-> n, stored |-> stored,
                  max_workers |-> k, dry_run |-> dry, skip_lock |-> skip]
    /\ ret = [fn |-> "run", phase |-> "start", master_wp_dir |-> call.stored,
              wp_new |-> {}, base_files |-> {}, input_files |-> {},
              locked_projects |-> {}, cancelled |-> {},
              prepare |-> [w \in TasksOf(call) |-> "queued"],
              push |-> [w \in TasksOf(call) |-> "queued"],
              collected |-> 0, updated |-> FALSE, pushed |-> FALSE]

\* prepare_inputs: files of work packages the configuration lacks are removed
RemoveUnusedWorkPackages ==
    /\ call.fn = "run"
    /\ ret.phase = "start"
    /\ ret' = [ret EXCEPT !.phase = "prepare",
                          !.master_wp_dir = @ \cap TasksOf(call)]
    /\ UNCHANGED <<mainvars, call>>

\* prepare_work_package, up to the download: the base file is copied, or the
\* work package is added to wp_new
PrepareBegin(w) ==
    /\ call.fn = "run"
    /\ ret.phase \in {"prepare", "prepare_unwind"}
    /\ MayStart(ret.prepare, w, call.max_workers)
    /\ ret' = IF w \in ret.master_wp_dir
              THEN [ret EXCEPT !.prepare[w] = "base_copied", !.base_files = @ \cup {w}]
              ELSE [ret EXCEPT !.prepare[w] = "done", !.wp_new = @ \cup {w}]
    /\ UNCHANGED <<mainvars, call>>

\* download_project_with_cache of the work package project
PrepareDownload(w) ==
    /\ call.fn = "run"
    /\ ret.phase \in {"prepare", "prepare_unwind"}
    /\ ret.prepare[w] = "base_copied"
    /\ \E ok \in BOOLEAN :
          ret' = [ret EXCEPT !.prepare[w] = IF ok THEN "downloaded" ELSE "raised"]
    /\ UNCHANGED <<mainvars, call>>

\* the input file is copied
PrepareCopyInput(w) ==
    /\ call.fn = "run"
    /\ ret.phase \in {"prepare", "prepare_unwind"}
    /\ ret.prepare[w] = "downloaded"
    /\ ret' = [ret EXCEPT !.prepare[w] = "input_copied", !.input_files = @ \cup {w}]
    /\ UNCHANGED <<mainvars, call>>

\* if not ctx.skip_lock: ctx.project_padlock.lock(wp_dir)
PrepareLock(w) ==
    /\ call.fn = "run"
    /\ ret.phase \in {"prepare", "prepare_unwind"}
    /\ ret.prepare[w] = "input_copied"
    /\ ret' = IF NeedsLock(call.skip_lock)
              THEN [ret EXCEPT !.prepare[w] = "done", !.locked_projects = @ \cup {w}]
              ELSE [ret EXCEPT !.prepare[w] = "done"]
    /\ UNCHANGED <<mainvars, call>>

\* ProjectPadlock.lock re-raises the ClientError of the server
PrepareLockRaises(w) ==
    /\ call.fn = "run"
    /\ ret.phase \in {"prepare", "prepare_unwind"}
    /\ ret.prepare[w] = "input_copied"
    /\ NeedsLock(call.skip_lock)
    /\ ret' = [ret EXCEPT !.prepare[w] = "raised"]
    /\ UNCHANGED <<mainvars, call>>

\* the main thread takes the next result of executor.map(prepare_work_package, ...)
PrepareCollect ==
    /\ call.fn = "run"
    /\ ret.phase = "prepare"
    /\ ret.collected < call.wp_names
    /\ ret.prepare[ret.collected + 1] \in {"done", "raised"}
    /\ ret' = IF ResultRaises(ret.prepare[ret.collected + 1])
              THEN [ret EXCEPT !.phase = "prepare_unwind", !.prepare = CancelQueued(@)]
              ELSE [ret EXCEPT !.collected = @ + 1]
    /\ UNCHANGED <<mainvars, call>>

\* leaving the with block waits for the running workers; then the exception
\* leaves prepare_inputs and run_wp_mergin_with_context
PrepareUnwound ==
    /\ call.fn = "run"
    /\ ret.phase = "prepare_unwind"
    /\ RunningTasks(ret.prepare) = {}
    /\ ret' = [ret EXCEPT !.phase = "raised"]
    /\ UNCHANGED <<mainvars, call>>

\* if not ctx.skip_lock: ctx.project_padlock.lock(ctx.master_dir); prepare_inputs
\* returns
LockMaster ==
    /\ call.fn = "run"
    /\ ret.phase = "prepare"
    /\ ret.collected = call.wp_names
    /\ ret' = IF NeedsLock(call.skip_lock)
              THEN [ret EXCEPT !.phase = "prepared", !.locked_projects = @ \cup {MasterDir}]
              ELSE [ret EXCEPT !.phase = "prepared"]
    /\ UNCHANGED <<mainvars, call>>

LockMasterRaises ==
    /\ call.fn = "run"
    /\ ret.phase = "prepare"
    /\ ret.collected = call.wp_names
    /\ NeedsLock(call.skip_lock)
    /\ ret' = [ret EXCEPT !.phase = "raised"]
    /\ UNCHANGED <<mainvars, call>>

\* make_work_packages(ctx.wp_alg_dir, wp_config) returns
MakeWorkPackages ==
    /\ call.fn = "run"
    /\ ret.phase = "prepared"
    /\ ret' = [ret EXCEPT !.phase = "push", !.collected = 0]
    /\ UNCHANGED <<mainvars, call>>

\* make_work_packages raises
MakeWorkPackagesRaises ==
    /\ call.fn = "run"
    /\ ret.phase = "prepared"
    /\ ret' = [ret EXCEPT !.phase = "raised"]
    /\ UNCHANGED <<mainvars, call>>

\* push_work_package, up to the dry run test: the project of a new work package
\* is created and the output file is copied into the project directory
PushBegin(w) ==
    /\ call.fn = "run"
    /\ ret.phase \in {"push", "push_unwind"}
    /\ MayStart(ret.push, w, call.max_workers)
    /\ ret' = [ret EXCEPT !.push[w] = "copied"]
    /\ UNCHANGED <<mainvars, call>>

\* if ctx.dry_run: return
PushDryRun(w) ==
    /\ call.fn = "run"
    /\ ret.phase \in {"push", "push_unwind"}
    /\ ret.push[w] = "copied"
    /\ call.dry_run
    /\ ret' = [ret EXCEPT !.push[w] = "done"]
    /\ UNCHANGED <<mainvars, call>>

\* if not ctx.skip_lock: ctx.project_padlock.unlock(wp_dir)
PushUnlock(w) ==
    /\ call.fn = "run"
    /\ ret.phase \in {"push", "push_unwind"}
    /\ ret.push[w] = "copied"
    /\ ~call.dry_run
    /\ ret' = IF NeedsLock(call.skip_lock) /\ w \in ret.locked_projects
              THEN [ret EXCEPT !.push[w] = "unlocked",
                               !.locked_projects = Unlocked(@, w),
                               !.cancelled = @ \cup {w}]
              ELSE [ret EXCEPT !.push[w] = "unlocked"]
    /\ UNCHANGED <<mainvars, call>>

\* ProjectPadlock.unlock re-raises a ClientError other than the expired lock
PushUnlockRaises(w) ==
    /\ call.fn = "run"
    /\ ret.phase \in {"push", "push_unwind"}
    /\ ret.push[w] = "copied"
    /\ ~call.dry_run
    /\ NeedsLock(call.skip_lock)
    /\ w \in ret.locked_projects
    /\ ret' = [ret EXCEPT !.push[w] = "raised"]
    /\ UNCHANGED <<mainvars, call>>

\* push_mergin_project(ctx.mc, wp_dir) returns or raises
PushUpload(w) ==
    /\ call.fn = "run"
    /\ ret.phase \in {"push", "push_unwind"}
    /\ ret.push[w] = "unlocked"
    /\ \E ok \in BOOLEAN :
          ret' = [ret EXCEPT !.push[w] = IF ok THEN "done" ELSE "raised"]
    /\ UNCHANGED <<mainvars, call>>

\* the main thread takes the next result of executor.map(push_work_package, ...)
PushCollect ==
    /\ call.fn = "run"
    /\ ret.phase = "push"
    /\ ret.collected < call.wp_names
    /\ ret.push[ret.collected + 1] \in {"done", "raised"}
    /\ ret' = IF ResultRaises(ret.push[ret.collected + 1])
              THEN [ret EXCEPT !.phase = "push_unwind", !.push = CancelQueued(@)]
              ELSE [ret EXCEPT !.collected = @ + 1]
    /\ UNCHANGED <<mainvars, call>>

PushUnwound ==
    /\ call.fn = "run"
    /\ ret.phase = "push_unwind"
    /\ RunningTasks(ret.push) = {}
    /\ ret' = [ret EXCEPT !.phase = "raised"]
    /\ UNCHANGED <<mainvars, call>>

\* the master database, remap.db and the base files of the work packages are
\* copied into the master project directory
UpdateMasterProject ==
    /\ call.fn = "run"
    /\ ret.phase = "push"
    /\ ret.collected = call.wp_names
    /\ ret' = [ret EXCEPT !.phase = "master_updated", !.updated = TRUE,
                          !.master_wp_dir = TasksOf(call)]
    /\ UNCHANGED <<mainvars, call>>

\* the dry run test, the unlock and the push of the master project
PushMasterProject ==
    /\ call.fn = "run"
    /\ ret.phase = "master_updated"
    /\ ret' = IF call.dry_run THEN [ret EXCEPT !.phase = "cleanup"]
              ELSE IF NeedsLock(call.skip_lock) /\ MasterDir \in ret.locked_projects
              THEN [ret EXCEPT !.phase = "cleanup", !.pushed = TRUE,
                               !.locked_projects = Unlocked(@, MasterDir),
                               !.cancelled = @ \cup {MasterDir}]
              ELSE [ret EXCEPT !.phase = "cleanup", !.pushed = TRUE]
    /\ UNCHANGED <<mainvars, call>>

\* the unlock of the master project raises, or its push does after the unlock
PushMasterProjectRaises ==
    /\ call.fn = "run"
    /\ ret.phase = "master_updated"
    /\ ~call.dry_run
    /\ \E unlockRaises \in BOOLEAN :
          IF NeedsLock(call.skip_lock) /\ MasterDir \in ret.locked_projects /\ ~unlockRaises
          THEN ret' = [ret EXCEPT !.phase = "raised",
                                  !.locked_projects = Unlocked(@, MasterDir),
                                  !.cancelled = @ \cup {MasterDir}]
          ELSE ret' = [ret EXCEPT !.phase = "raised"]
    /\ UNCHANGED <<mainvars, call>>

\* if not ctx.skip_lock: ctx.project_padlock.unlock_all(); the run returns
UnlockAll ==
    /\ call.fn = "run"
    /\ ret.phase = "cleanup"
    /\ ret' = IF NeedsLock(call.skip_lock)
              THEN [ret EXCEPT !.phase = "returned", !.locked_projects = {},
                               !.cancelled = @ \cup ret.locked_projects]
              ELSE [ret EXCEPT !.phase = "returned"]
    /\ UNCHANGED <<mainvars, call>>

\* one unlock of unlock_all raises: the directories not yet reached stay locked
UnlockAllRaises ==
    /\ call.fn = "run"
    /\ ret.phase = "cleanup"
    /\ NeedsLock(call.skip_lock)
    /\ \E kept \in (SUBSET ret.locked_projects) \ {{}} :
          ret' = [ret EXCEPT !.phase = "raised", !.locked_projects = kept,
                             !.cancelled = @ \cup (ret.locked_projects \ kept)]
    /\ UNCHANGED <<mainvars, call>>

MerginNext ==
    \/ RemoveUnusedWorkPackages
    \/ \E w \in 1..MaxTasks : w \in DOMAIN ret.prepare /\ PrepareBegin(w)
    \/ \E w \in 1..MaxTasks : w \in DOMAIN ret.prepare /\ PrepareDownload(w)
    \/ \E w \in 1..MaxTasks : w \in DOMAIN ret.prepare /\ PrepareCopyInput(w)
    \/ \E w \in 1..MaxTasks : w \in DOMAIN ret.prepare /\ PrepareLock(w)
    \/ \E w \in 1..MaxTasks : w \in DOMAIN ret.prepare /\ PrepareLockRaises(w)
    \/ PrepareCollect
    \/ PrepareUnwound
    \/ LockMaster
    \/ LockMasterRaises
    \/ MakeWorkPackages
    \/ MakeWorkPackagesRaises
    \/ \E w \in 1..MaxTasks : w \in DOMAIN ret.push /\ PushBegin(w)
    \/ \E w \in 1..MaxTasks : w \in DOMAIN ret.push /\ PushDryRun(w)
    \/ \E w \in 1..MaxTasks : w \in DOMAIN ret.push /\ PushUnlock(w)
    \/ \E w \in 1..MaxTasks : w \in DOMAIN ret.push /\ PushUnlockRaises(w)
    \/ \E w \in 1..MaxTasks : w \in DOMAIN ret.push /\ PushUpload(w)
    \/ PushCollect
    \/ PushUnwound
    \/ UpdateMasterProject
    \/ PushMasterProject
    \/ PushMasterProjectRaises
    \/ UnlockAll
    \/ UnlockAllRaises

MerginSpec == MerginInit /\ [][MerginNext]_vars

\* ================================================================ claims
IsBijection(rel) == \A e1, e2 \in rel : (e1.m = e2.m \/ e1.w = e2.w) => e1 = e2

MasterOf(rel, w) == (CHOOSE e \in rel : e.w = w).m

WpOf(rel, m) == (CHOOSE e \in rel : e.m = m).w

\* keys of the rows a work package's user inserted / deleted since the last run
NewInWp(w) == Ids(input.wp[w]) \ Ids(base.wp[w])

GoneInWp(w) == Ids(base.wp[w]) \ Ids(input.wp[w])

\* C1: after every successful run each remap relation of output/remap.db is a
\* bijection: no master_fid and no wp_fid occurs in two entries.
C1_RemapBijection ==
    pc = "done" => \A w \in AllWPs : IsBijection(output.remap[w])

\* a later run ended after a work package inserted a row, and its relation holds
\* entries from both directions
C1_Witness ==
    /\ pc = "done"
    /\ runs >= 2
    /\ \E w \in AllWPs :
          /\ NewInWp(w) # {}
          /\ \E e \in output.remap[w] \ base.remap[w] : e.w \in NewInWp(w)
          /\ \E e \in output.remap[w] : e.w >= FirstWpFid

\* C2: every row that is new in input/<wp>.gpkg relative to base/<wp>.gpkg gets,
\* in the Stage 1 iteration of its work package, a master ID greater than every
\* key of output/master.gpkg at the time of the assignment.
C2_NewWpRowsAboveMasterMax ==
    (ev.op = "stage1" /\ pc # "failed") =>
        \A x \in NewInWp(ev.wp) : \A e \in output.remap[ev.wp] :
            e.w = x => \A y \in ev.masterIds : e.m > y

\* C3: when both work packages inserted a row before a run that succeeds, the two
\* rows have distinct master IDs, both are in output/master.gpkg, and with exactly
\* one insert each (and no row deleted in a work package or present in the master
\* under these keys before) the master has two rows more than input/master.gpkg.
C3_TwoWpInsertsDistinct ==
    (pc = "done" /\ NewInWp("A") # {} /\ NewInWp("B") # {}) =>
        /\ \A xa \in NewInWp("A") : \A xb \in NewInWp("B") :
              /\ MasterOf(output.remap["A"], xa) # MasterOf(output.remap["B"], xb)
              /\ MasterOf(output.remap["A"], xa) \in Ids(output.master)
              /\ MasterOf(output.remap["B"], xb) \in Ids(output.master)
        /\ (Cardinality(NewInWp("A")) = 1 /\ Cardinality(NewInWp("B")) = 1
            /\ GoneInWp("A") = {} /\ GoneInWp("B") = {})
           => Cardinality(output.master) = Cardinality(input.master) + 2

\* the predicate of a work package as the specification states it: the filter
\* column equals the scalar / is a member of the list, or the geometry intersects
Satisfies(r, meth, w) == r.k # Null /\ r.k \in WPValue(meth, w).vals

Matching(t, meth, w) == {r \in t : Satisfies(r, meth, w)}

\* C4: a master row that is in the master and passes W's filter in two consecutive
\* runs has the same WP-local key in the output of both runs (base/ holds the
\* output of the previous run).
C4_StableWpLocalId ==
    (pc = "done" /\ base.hasMaster) =>
        \A w \in AllWPs :
            \A m \in Ids(Matching(base.master, method, w)) \cap Ids(Matching(output.master, method, w)) :
                \E x \in Ids(base.wp[w]) \cap Ids(output.wp[w]) :
                    /\ [m |-> m, w |-> x] \in base.remap[w]
                    /\ [m |-> m, w |-> x] \in output.remap[w]

\* a second run ended with a row kept in a work package while other rows of
\* that work package were added in this run
C4_Witness ==
    /\ pc = "done"
    /\ base.hasMaster
    /\ \E w \in AllWPs :
          /\ Ids(Matching(base.master, method, w)) \cap Ids(Matching(output.master, method, w)) # {}
          /\ output.remap[w] # base.remap[w]

C6_AssignedAtLeastFirstWpFid ==
    ev.op = "stage2" =>
        /\ \A e \in ev.added : e.w >= FirstWpFid
        /\ (ev.relBefore = {} /\ ev.added # {}) => \E e \in ev.added : e.w = FirstWpFid

\* C7: every entry of base/remap.db is, unchanged, in output/remap.db during and
\* after a run whose prelude passed.
C7_EntriesKept ==
    pc \in {"stage1", "stage2", "done"} =>
        \A w \in AllWPs : base.remap[w] \subseteq output.remap[w]

\* a run ended after a mapped row was deleted both in the master and in the
\* work package; its entry is still there
C7_Witness ==
    /\ pc = "done"
    /\ \E w \in AllWPs : \E e \in base.remap[w] :
          /\ e.m \in Ids(base.master)
          /\ e.m \notin Ids(input.master)
          /\ e.w \in GoneInWp(w)
          /\ e.m \notin Ids(output.master)
          /\ e.w \notin Ids(output.wp[w])
          /\ e \in output.remap[w]

\* C8: after a successful run every row of output/<wp>.gpkg satisfies the work
\* package's predicate under the table's method.
C8_OutputRowsSatisfyPredicate ==
    pc = "done" =>
        \A w \in AllWPs : \A r \in output.wp[w] : Satisfies(r, method, w)

\* C9: for filter-column the rows of output/<wp>.gpkg are exactly the matching
\* rows of output/master.gpkg, each under the WP-local key the relation gives
\* its master key and with its column value unchanged.
C9_ColumnFilterExact ==
    (pc = "done" /\ method = FILTER_METHOD_COLUMN) =>
        \A w \in AllWPs :
            LET match == Matching(output.master, method, w)
            IN /\ \A r \in match : \E e \in output.remap[w] : e.m = r.id
               /\ output.wp[w] = {[id |-> WpOf(output.remap[w], r.id), k |-> r.k] : r \in match}
               /\ Cardinality(output.wp[w]) = Cardinality(match)

\* a filter-column run ended with a work package of two rows and a master row
\* (one with a NULL filter column among them) that is in no work package
C9_Witness ==
    /\ pc = "done"
    /\ method = FILTER_METHOD_COLUMN
    /\ \E w \in AllWPs : Cardinality(output.wp[w]) >= 2
    /\ \E r \in output.master : r.k = Null
    /\ output.wp["A"] # output.wp["B"]

\* master keys of the rows deleted in some work package since the last run
DeletedInWps == {e.m : e \in UNION {{f \in base.remap[w] : f.w \in GoneInWp(w)} : w \in AllWPs}}

\* C10: after a run that had previous work packages, the row count of
\* output/master.gpkg is that of input/master.gpkg, plus the rows inserted in the
\* work packages, minus the rows deleted in the work packages that were still in
\* input/master.gpkg (a row deleted in several places counts once).
C10_MasterRowCount ==
    (pc = "done" /\ base.hasMaster) =>
        Cardinality(output.master) =
            Cardinality(input.master) + Cardinality(NewInWp("A")) + Cardinality(NewInWp("B"))
            - Cardinality(DeletedInWps \cap Ids(input.master))

\* a run ended that imported an insert of one work package and a delete of
\* the other, on top of an edited master
C10_Witness ==
    /\ pc = "done"
    /\ base.hasMaster
    /\ input.master # base.master
    /\ \E w \in AllWPs : NewInWp(w) # {}
    /\ DeletedInWps \cap Ids(input.master) # {}

\* ------------------------------------------- scenarios between two runs
\* input/ is the previous output, unedited
NoEdits == input.master = base.master /\ input.wp = base.wp

\* C11: a run whose base/ and input/ both are the previous run's output (no
\* user edit) produces the same master, the same work packages and the same
\* remap relations as the previous run.
C11_RerunSameOutput ==
    (pc = "done" /\ base.hasMaster /\ NoEdits) =>
        /\ output.master = base.master
        /\ output.wp = base.wp
        /\ output.remap = base.remap

\* an unedited rerun ended, with rows in both work packages
C11_Witness ==
    /\ pc = "done"
    /\ base.hasMaster
    /\ NoEdits
    /\ base.wp["A"] # {}
    /\ base.wp["B"] # {}
    /\ output.wp = base.wp

\* the only edit since the last run: row x of input/<w>.gpkg has another value
OnlyWpUpdate(w, x) ==
    /\ input.master = base.master
    /\ \A u \in AllWPs \ {w} : input.wp[u] = base.wp[u]
    /\ Ids(input.wp[w]) = Ids(base.wp[w])
    /\ x \in Ids(base.wp[w])
    /\ base.wp[w] \ input.wp[w] = {RowOf(base.wp[w], x)}

MasterUpdated(m) ==
    /\ Ids(input.master) = Ids(base.master)
    /\ m \in Ids(base.master)
    /\ base.master \ input.master = {RowOf(base.master, m)}

\* row x of input/<w>.gpkg is the only work package row edited, and it has another value
WpUpdated(w, x) ==
    /\ \A u \in AllWPs \ {w} : input.wp[u] = base.wp[u]
    /\ Ids(input.wp[w]) = Ids(base.wp[w])
    /\ x \in Ids(base.wp[w])
    /\ base.wp[w] \ input.wp[w] = {RowOf(base.wp[w], x)}

\* master row m was in work package w after the last run, under local key y
InWp(w, m, y) == [m |-> m, w |-> y] \in base.remap[w] /\ y \in Ids(base.wp[w])

OnlyWpDelete(w, x) ==
    /\ input.master = base.master
    /\ \A u \in AllWPs \ {w} : input.wp[u] = base.wp[u]
    /\ x \in Ids(base.wp[w])
    /\ input.wp[w] = base.wp[w] \ {RowOf(base.wp[w], x)}

\* C14 as stated: after a run whose only edit was the deletion of row x (master
\* row m) in work package w, row m is not in output/master.gpkg, row x is not in
\* the regenerated work package, and the rows of every other work package are
\* those it had before.
C14_WpDeleteOthersUnchanged ==
    (pc = "done" /\ base.hasMaster) =>
        \A w \in AllWPs : \A x \in Ids(base.wp[w]) :
            OnlyWpDelete(w, x) =>
                LET m == MasterOf(base.remap[w], x)
                IN /\ m \notin Ids(output.master)
                   /\ x \notin Ids(output.wp[w])
                   /\ \A u \in AllWPs \ {w} : output.wp[u] = base.wp[u]

\* C14 amended: row m is not in output/master.gpkg, row x is not in the
\* regenerated work package, and every other work package has the rows it had
\* before except its own copy of master row m.
C14_WpDeleteReachesAll ==
    (pc = "done" /\ base.hasMaster) =>
        \A w \in AllWPs : \A x \in Ids(base.wp[w]) :
            OnlyWpDelete(w, x) =>
                LET m == MasterOf(base.remap[w], x)
                IN /\ m \notin Ids(output.master)
                   /\ output.master = {r \in base.master : r.id # m}
                   /\ x \notin Ids(output.wp[w])
                   /\ \A u \in AllWPs \ {w} :
                         output.wp[u] = {r \in base.wp[u] : [m |-> m, w |-> r.id] \notin base.remap[u]}

\* a run ended whose only edit was the deletion, in one work package, of a row
\* that another work package holds as well, and that one keeps other rows
C14_Witness ==
    /\ pc = "done"
    /\ base.hasMaster
    /\ \E w \in AllWPs : \E x \in Ids(base.wp[w]) :
          /\ OnlyWpDelete(w, x)
          /\ MasterOf(base.remap[w], x) \notin Ids(output.master)
          /\ \E u \in AllWPs \ {w} : output.wp[u] # {} /\ output.wp[u] # base.wp[u]

\* the only edit since the last run: row m of input/master.gpkg was deleted
OnlyMasterDelete(m) ==
    /\ input.wp = base.wp
    /\ m \in Ids(base.master)
    /\ input.master = base.master \ {RowOf(base.master, m)}

\* C15: after a run whose only edit was the deletion of master row m, the row
\* is in no regenerated work package under the local key it had there, and it
\* is not back in output/master.gpkg, which is input/master.gpkg.
C15_MasterDeleteReachesWps ==
    (pc = "done" /\ base.hasMaster) =>
        \A m \in Ids(base.master) : OnlyMasterDelete(m) =>
            /\ m \notin Ids(output.master)
            /\ output.master = input.master
            /\ \A w \in AllWPs : \A y \in Ids(base.wp[w]) :
                  InWp(w, m, y) => y \notin Ids(output.wp[w])

\* a run ended whose only edit was the deletion of a master row that a work
\* package held
C15_Witness ==
    /\ pc = "done"
    /\ base.hasMaster
    /\ \E m \in Ids(base.master) : \E w \in AllWPs : \E y \in Ids(base.wp[w]) :
          /\ OnlyMasterDelete(m)
          /\ InWp(w, m, y)
          /\ y \notin Ids(output.wp[w])
          /\ output.master # {}

\* the only edits since the last run: master row m was deleted in
\* input/master.gpkg and its copy x was deleted in input/<w>.gpkg
BothDelete(w, m, x) ==
    /\ InWp(w, m, x)
    /\ m \in Ids(base.master)
    /\ input.master = base.master \ {RowOf(base.master, m)}
    /\ \A u \in AllWPs \ {w} : input.wp[u] = base.wp[u]
    /\ input.wp[w] = base.wp[w] \ {RowOf(base.wp[w], x)}

\* C16: a run after the same row was deleted in the master and in a work
\* package does not fail, and when it has ended the row is neither in
\* output/master.gpkg nor in the regenerated work package.
C16_DeleteOnBothSides ==
    (pc \in {"stage1", "stage2", "done", "failed"} /\ base.hasMaster) =>
        \A w \in AllWPs : \A m \in Ids(base.master) : \A x \in Ids(base.wp[w]) :
            BothDelete(w, m, x) =>
                /\ pc # "failed"
                /\ pc = "done" => (m \notin Ids(output.master) /\ x \notin Ids(output.wp[w]))

\* a run ended after a row was deleted on both sides, other rows remaining
C16_Witness ==
    /\ pc = "done"
    /\ base.hasMaster
    /\ output.master # {}
    /\ \E w \in AllWPs : \E m \in Ids(base.master) : \E x \in Ids(base.wp[w]) :
          BothDelete(w, m, x) /\ output.wp[w] # {}

\* the only edit since the last run: row x was inserted in input/<w>.gpkg
OnlyWpInsert(w, x) ==
    /\ input.master = base.master
    /\ \A u \in AllWPs \ {w} : input.wp[u] = base.wp[u]
    /\ base.wp[w] \subseteq input.wp[w]
    /\ x \notin Ids(base.wp[w])
    /\ Ids(input.wp[w]) = Ids(base.wp[w]) \cup {x}

\* C17: after a run whose only edit was the insertion of a row with local key x
\* (a row that passes the filter) in work package w, output/master.gpkg is the
\* previous master plus that row under the key max(previous master keys) + 1,
\* the relation of w holds the pair (that key, x), and the regenerated work
\* package holds the row under the key x.
C17_WpInsertImported ==
    (pc = "done" /\ base.hasMaster /\ base.master # {}) =>
        \A w \in AllWPs : \A x \in Ids(input.wp[w]) :
            (OnlyWpInsert(w, x) /\ Satisfies(RowOf(input.wp[w], x), method, w)) =>
                LET n == MaxOf(Ids(base.master)) + 1
                    v == RowOf(input.wp[w], x).k
                IN /\ output.master = base.master \cup {[id |-> n, k |-> v]}
                   /\ [m |-> n, w |-> x] \in output.remap[w]
                   /\ [id |-> x, k |-> v] \in output.wp[w]

\* row m was inserted in input/master.gpkg, the only edit of the master
MasterInserted(m) ==
    /\ base.master \subseteq input.master
    /\ m \notin Ids(base.master)
    /\ Ids(input.master) = Ids(base.master) \cup {m}

\* row x was inserted in input/<w>.gpkg, the only edit of the work packages
WpInserted(w, x) ==
    /\ \A u \in AllWPs \ {w} : input.wp[u] = base.wp[u]
    /\ base.wp[w] \subseteq input.wp[w]
    /\ x \notin Ids(base.wp[w])
    /\ Ids(input.wp[w]) = Ids(base.wp[w]) \cup {x}

\* C18: when the only edit was the insertion of master row m, a row that passes
\* the filter of work package w, the Stage 2 iteration of w puts it in
\* output/<w>.gpkg under the key max(wp_fid of the relation of w) + 1; when w
\* inserted a row x of its own as well (one that passes its filter), the
\* regenerated work package holds both rows under different keys (two rows more
\* than before).
C18_MasterInsertGetsNextWpFid ==
    base.hasMaster =>
        \A m \in Ids(input.master) : MasterInserted(m) =>
            LET v == RowOf(input.master, m).k
            IN /\ (ev.op = "stage2" /\ pc # "failed" /\ input.wp = base.wp
                   /\ Satisfies(RowOf(input.master, m), method, ev.wp) /\ ev.relBefore # {})
                  => [id |-> MaxOf(WpFids(ev.relBefore)) + 1, k |-> v] \in output.wp[ev.wp]
               /\ pc = "done" =>
                     \A w \in AllWPs : \A x \in Ids(input.wp[w]) :
                        (WpInserted(w, x) /\ Satisfies(RowOf(input.master, m), method, w)
                         /\ Satisfies(RowOf(input.wp[w], x), method, w)) =>
                            /\ \E y \in Ids(output.wp[w]) :
                                  /\ [m |-> m, w |-> y] \in output.remap[w]
                                  /\ [id |-> y, k |-> v] \in output.wp[w]
                            /\ Cardinality(output.wp[w]) = Cardinality(base.wp[w]) + 2

\* a step taken inside a stage leaves the relations of the work packages it
\* is not made for as they are
OtherRelationsKept ==
    pc \in {"stage1", "stage2"} =>
        \A w \in AllWPs \ {ev'.wp} :
            (output'.remap[w] = output.remap[w]
             /\ NextWpFid(output'.remap[w]) = NextWpFid(output.remap[w]))

\* C19: a step of Stage 1 or Stage 2 made for one work package changes neither
\* the entries of another work package's relation nor the WP-local ID that
\* relation would assign next.
C19_OtherRelationsUntouched ==
    [][OtherRelationsKept]_vars

\* a Stage 2 iteration added entries to the relation of one work package while
\* the other's relation is not empty and is at another point of its sequence
C19_Witness ==
    /\ ev.op = "stage2"
    /\ pc # "failed"
    /\ ev.added # {}
    /\ \E w \in AllWPs \ {ev.wp} :
          /\ output.remap[w] # {}
          /\ NextWpFid(output.remap[w]) # NextWpFid(output.remap[ev.wp])

\* C20: the prelude raises exactly when base/ has a work package file but no
\* remap.db, or remap.db but no work package file; it does not raise when both
\* are present or both are absent.
C20_RemapDbCheck ==
    ev.op = "prelude" =>
        (pc = "failed" <=> ((base.wps # {} /\ ~base.hasRemap) \/ (base.wps = {} /\ base.hasRemap)))

\* a run was refused because base/ has remap.db and no work package file
C20_Witness ==
    /\ ev.op = "prelude"
    /\ pc = "failed"
    /\ base.wps = {}
    /\ base.hasRemap
    /\ base.hasMaster

\* a step that starts a run: the purge, the scan and the copies of the prelude
RunStarts == pc = "idle" /\ runs' # runs

\* a step of a run
RunStep == RunStarts \/ pc \in {"stage1", "stage2"}

RaisesBeforeMutation == (RunStarts /\ pc' = "failed") => (output' = output /\ tmp' = tmp)

\* C21: a run that raises because base/ holds work packages' files without remap.db, or
\* remap.db without such files, raises before it changed anything: output/ and tmp/
\* are as they were before the call
C21_RaisesBeforeAnyMutation == [][RaisesBeforeMutation]_vars

SourcesKept == RunStep => (base' = base /\ input' = input)

\* C22: no step of a run, whether the run succeeds or fails, changes a file of base/
\* or input/: Stage 1 remaps copies under tmp/ and every write goes to output/ or tmp/
C22_BaseAndInputReadOnly == [][SourcesKept]_vars

\* Stage 1 has remapped the copy of an input file, whose keys now differ from the file's
C22_Witness ==
    /\ ev.op = "stage1"
    /\ pc # "failed"
    /\ ev.wp \in tmp.wps
    /\ input.wp[ev.wp] # {}
    /\ tmp.input[ev.wp] # input.wp[ev.wp]

ConfiguredWPs == {wp_names[i] : i \in 1..Len(wp_names)}

OutputComplete ==
    pc = "done" => (output.hasMaster /\ output.hasRemap /\ output.wps = ConfiguredWPs)

OutputStartsEmpty ==
    RunStarts => (output'.wps = {} /\ output'.wp = EmptyFiles /\ output'.master = input.master
                  /\ (output'.hasRemap => base.hasRemap) /\ output'.rels \subseteq base.rels)

InBase(w) == w \in base.wps

\* the work packages of base/ in the order the configuration lists them
ConfiguredOrder == SelectSeq(wp_names, InBase)

\* C24: the order in which Stage 1 processes the work packages of base/ is a function
\* of the configuration, so that two runs on the same base/, input/ and configuration
\* process them in the same order and produce the same master.gpkg and remap.db
C24_Stage1OrderFromConfiguration ==
    pc \in {"stage1", "stage2", "done"} => old_wp_names = ConfiguredOrder

\* C25: the lookup of the key column raises the unsupported-schema error for a table
\* with no key column and for a table with more than one, and returns the column's
\* name for a table with exactly one
C25_TablePkey ==
    ret.fn = "_table_pkey" =>
        LET pk == PkColumns(call.table_info)
        IN IF Cardinality(pk) = 1
           THEN ret.raised = "none" /\ \A i \in pk : ret.value = call.table_info[i].name
           ELSE ret.raised = "ValueError"

\* C27: for a table whose key column has any name, Stage 1 takes as next master ID
\* the maximum of that column plus one, and 1 for an empty table
C27_NextMasterIdFromKeyColumn ==
    (ret.fn = "new_master_fid" /\ Cardinality(PkColumns(call.table_info)) = 1) =>
        /\ ret.raised = "none"
        /\ ret.value = IF call.keys = {} THEN 1 ELSE MaxOf(call.keys) + 1

\* a required key is missing from the YAML of the call
RequiredKeyMissing ==
    LET r == call.root_yaml
    IN \/ \E k \in RootKeys : ~HasKey(r, k)
       \/ \E i \in Positions(r["work-packages"]) : \E k \in WpEntryKeys : ~HasKey(r["work-packages"][i], k)
       \/ \E i \in Positions(r["tables"]) : \E k \in {"name", "method"} : ~HasKey(r["tables"][i], k)

\* a table of the YAML is filtered by column and names no column
FilterColumnMissing ==
    LET r == call.root_yaml
    IN /\ HasKey(r, "tables")
       /\ \E i \in Positions(r["tables"]) :
             /\ HasKey(r["tables"][i], "method")
             /\ r["tables"][i]["method"] = FILTER_METHOD_COLUMN
             /\ ~HasKey(r["tables"][i], "filter-column-name")

\* C26: loading the configuration fails when a required key is missing and when a
\* table's method is filter-column and it has no filter-column-name; a configuration
\* that is returned has no filter-column table without a filter column
C26_ConfigValidated ==
    (ret.fn = "load_config_from_yaml" /\ call.parses) =>
        /\ (RequiredKeyMissing \/ FilterColumnMissing) => ret.raised # "none"
        /\ ret.raised = "none" =>
               \A i \in Positions(ret.wp_tables) :
                   ret.wp_tables[i].filter_method = FILTER_METHOD_COLUMN
                       => ret.wp_tables[i].filter_column_name # None

\* Stage 2 runs only when Stage 1 has made its copies for every work package of base/
Stage1Finished == pc \in {"stage2", "done"} => tmp.wps = base.wps

\* a work package's file, with its keys mapped back to master IDs
InMasterIds(w) == {[id |-> MasterOf(output.remap[w], r.id), k |-> r.k] : r \in output.wp[w]}

CutFromFinalMaster ==
    pc = "done" =>
        \A w \in ConfiguredWPs :
            InMasterIds(w) = FilterRows(output.master, method, WPValue(method, w))

StagesReadOutputMaster ==
    /\ pc = "stage2" => output'.master = output.master
    /\ (pc = "stage1" /\ ev'.op = "stage1") =>
           (ev'.new_fid = NewMasterFid(output.master) /\ ev'.masterIds = Ids(output.master))

\* C28: Stage 2 starts only after every Stage 1 iteration has finished, so that every
\* work package is cut from the same final output/master.gpkg, which Stage 2 does not
\* change; a Stage 1 iteration computes its next master ID from output/master.gpkg as
\* the iteration before it left it
C28_StagesInSequence ==
    [](Stage1Finished /\ CutFromFinalMaster) /\ [][StagesReadOutputMaster]_vars

\* a run over two work packages of base/ is done, Stage 1 has changed the master and
\* both work packages hold rows
C28_Witness ==
    /\ pc = "done"
    /\ Len(old_wp_names) = 2
    /\ output.master # input.master
    /\ \A w \in ConfiguredWPs : output.wp[w] # {}

\* the remap of the next Stage 1 iteration inserts its entries without an error,
\* whatever the order in which it meets the new rows
NextRemapInsertsSucceed ==
    LET wp_name == old_wp_names[idx]
        rel0 == output.remap[remap_table_name(wp_name)]
        new_master_fid == NewMasterFid(output.master)
    IN \A ob \in Orders(WpFidsMissing(rel0, base.wp[wp_name])) :
          LET rb == remap_table_wp_to_master(rel0, base.wp[wp_name], new_master_fid, ob)
          IN /\ rb.ok
             /\ \A oi \in Orders(WpFidsMissing(rb.rel, input.wp[wp_name])) :
                   remap_table_wp_to_master(rb.rel, input.wp[wp_name], new_master_fid, oi).ok

\* C29: in Stage 1 the insertion of a remap entry for a row new in a work package
\* never violates the primary key master_fid of the remap table, also after the
\* master row with the highest ID was deleted: Stage 1 does not fail with a
\* constraint error
C29_Stage1InsertNeverCollides ==
    (pc = "stage1" /\ idx <= Len(old_wp_names) /\ old_wp_names[idx] \in input.wps)
        => NextRemapInsertsSucceed

\* C30: while the keys are rewritten (all negated, then each set to its mapped value)
\* no update gives a row the key another row holds, for every set of integer keys
\* the table may hold
C30_NoTransientDuplicateKey == ret.fn = "rewrite" => ~ret.raised

\* remap_table_master_to_wp applied to the table the next Stage 2 iteration cuts, and
\* applied once more to a table with the same master IDs
MasterToWpIdempotent ==
    LET wp_name == wp_names[idx]
        rel0 == output.remap[remap_table_name(wp_name)]
        t == FilterRows(output.master, method, WPValue(method, wp_name))
    IN \A o1 \in Orders(MasterFidsMissing(rel0, t)) :
          LET r1 == remap_table_master_to_wp(rel0, t, o1)
          IN r1.ok =>
                \A o2 \in Orders(MasterFidsMissing(r1.rel, t)) :
                    LET r2 == remap_table_master_to_wp(r1.rel, t, o2)
                    IN r2.ok /\ r2.new = {} /\ r2.rel = r1.rel /\ r2.table = r1.table

\* remap_table_wp_to_master applied to the input file of the next Stage 1 iteration,
\* and applied once more to a table with the same local IDs
WpToMasterIdempotent ==
    LET wp_name == old_wp_names[idx]
        rel0 == output.remap[remap_table_name(wp_name)]
        t == input.wp[wp_name]
        new_master_fid == NewMasterFid(output.master)
    IN \A o1 \in Orders(WpFidsMissing(rel0, t)) :
          LET r1 == remap_table_wp_to_master(rel0, t, new_master_fid, o1)
          IN r1.ok =>
                \A o2 \in Orders(WpFidsMissing(r1.rel, t)) :
                    LET r2 == remap_table_wp_to_master(r1.rel, t, new_master_fid, o2)
                    IN r2.ok /\ r2.new = {} /\ r2.rel = r1.rel /\ r2.table = r1.table

\* C31: both remap operations are idempotent: applied again to a table with the same
\* source IDs, an operation adds no entry to the relation and gives the rows the
\* same target IDs as before
C31_RemapIdempotent ==
    /\ (pc = "stage2" /\ idx <= Len(wp_names)) => MasterToWpIdempotent
    /\ (pc = "stage1" /\ idx <= Len(old_wp_names) /\ old_wp_names[idx] \in input.wps)
           => WpToMasterIdempotent

\* Stage 2 is about to cut a work package whose relation holds entries and lacks some
C31_Witness ==
    /\ pc = "stage2"
    /\ idx <= Len(wp_names)
    /\ output.remap[remap_table_name(wp_names[idx])] # {}
    /\ MasterFidsMissing(output.remap[remap_table_name(wp_names[idx])],
                         FilterRows(output.master, method, WPValue(method, wp_names[idx]))) # {}

\* remap_table_master_to_wp on the table the next Stage 2 iteration cuts, followed by
\* remap_table_wp_to_master with the relation it left
RoundTripRestores ==
    LET wp_name == wp_names[idx]
        rel0 == output.remap[remap_table_name(wp_name)]
        t == FilterRows(output.master, method, WPValue(method, wp_name))
    IN \A o1 \in Orders(MasterFidsMissing(rel0, t)) :
          LET r1 == remap_table_master_to_wp(rel0, t, o1)
          IN r1.ok =>
                \A o2 \in Orders(WpFidsMissing(r1.rel, r1.table)) :
                    LET r2 == remap_table_wp_to_master(r1.rel, r1.table,
                                                       NewMasterFid(output.master), o2)
                    IN r2.ok /\ r2.new = {} /\ r2.rel = r1.rel /\ r2.table = t

\* the copy tmp/<wp>-base.gpkg a Stage 1 iteration has remapped holds the rows the
\* previous run put into the work package, under their master IDs
BaseCopyInMasterIds ==
    (ev.op = "stage1" /\ pc # "failed") =>
        /\ ev.addedBase = {}
        /\ tmp.base[ev.wp] = FilterRows(base.master, method, WPValue(method, ev.wp))

\* C32: remap_table_master_to_wp followed by remap_table_wp_to_master with the same
\* relation gives every row its master ID back and inserts nothing in the second
\* step; so the Stage 1 copy of an unmodified base work package holds exactly the
\* master IDs of the rows that were put into the work package
C32_RoundTrip ==
    /\ (pc = "stage2" /\ idx <= Len(wp_names)) => RoundTripRestores
    /\ BaseCopyInMasterIds

\* a Stage 1 iteration has remapped a base copy that holds rows
C32_Witness ==
    /\ ev.op = "stage1"
    /\ pc # "failed"
    /\ tmp.base[ev.wp] # {}
    /\ tmp.base[ev.wp] # base.wp[ev.wp]

\* the next Stage 1 iteration is for a work package whose input file equals its base file
NextWpUnmodified ==
    /\ pc = "stage1"
    /\ idx <= Len(old_wp_names)
    /\ old_wp_names[idx] \in input.wps
    /\ input.wp[old_wp_names[idx]] = base.wp[old_wp_names[idx]]

UnmodifiedWpContributesNothing ==
    NextWpUnmodified =>
        (output'.master = output.master /\ output'.remap = output.remap
         /\ output'.rels = output.rels /\ pc' # "failed")

\* C33: the Stage 1 iteration of a work package whose input file equals its base file
\* leaves output/master.gpkg and output/remap.db unchanged, whether or not the master
\* was edited since the last run
C33_UnmodifiedWpNoEffect == [][UnmodifiedWpContributesNothing]_vars

\* such an iteration has run while the master differs from the one of the last run
C33_Witness ==
    /\ ev.op = "stage1"
    /\ pc # "failed"
    /\ input.wp[ev.wp] = base.wp[ev.wp]
    /\ input.wp[ev.wp] # {}
    /\ input.master # base.master
    /\ ~ev.applied

C35_WorkspaceInvariantKept == ret.fn = "workspace" => ~ret.raised

\* C36: two (table, work package) pairs have the same relation name only if they are
\* the same pair, for all names, those with an underscore included
C36_RelationNamesDistinct ==
    (ret.fn = "remap_table_name" /\ ret.first = ret.second)
        => (call.t1 = call.t2 /\ call.w1 = call.w2)

\* the attempts made so far, but the last, raised the client error
EarlierAttemptsFailed ==
    \A i \in 1..(ret.attempts - 1) : call.outcomes[i] = "ClientError"

\* C40: push_mergin_project makes at most max_retries + 1 attempts; it returns False
\* when there is nothing to push, True after the first attempt that succeeds, makes
\* another attempt only after a client error, and re-raises the client error of
\* attempt max_retries + 1
C40_PushRetries ==
    ret.fn = "push" =>
        /\ ret.attempts <= call.max_retries + 1
        /\ ret.attempts > 0 => EarlierAttemptsFailed
        /\ ret.result = "running" =>
               (ret.attempts <= call.max_retries
                /\ (ret.attempts > 0 => call.outcomes[ret.attempts] = "ClientError"))
        /\ ret.result = "False" => call.outcomes[ret.attempts] = "nothing"
        /\ ret.result = "True" => call.outcomes[ret.attempts] = "ok"
        /\ ret.result = "raised OtherError" => call.outcomes[ret.attempts] = "OtherError"
        /\ ret.result = "raised ClientError" =>
               (ret.attempts = call.max_retries + 1
                /\ call.outcomes[ret.attempts] = "ClientError")
        /\ (ret.attempts = call.max_retries + 1) => ret.result # "running"

\* every attempt of a call with the largest max_retries failed, and the error was re-raised
C40_Witness ==
    /\ ret.fn = "push"
    /\ call.max_retries = MaxRetries
    /\ ret.result = "raised ClientError"

\* C37: in push_data_to_projects the master project directory is updated, and the
\* master project pushed, only after the push of every work package has
\* finished; when the push of a work package raises, the master project
\* directory is not updated and the master project is not pushed
C37_MasterAfterWorkPackages ==
    call.fn = "run" =>
        /\ ret.updated => \A w \in DOMAIN ret.push : ret.push[w] = "done"
        /\ ret.pushed => ret.updated
        /\ (\E w \in DOMAIN ret.push : ret.push[w] = "raised")
              => ~ret.updated /\ ~ret.pushed

\* one work package was pushed, the push of another raised, and the run has ended
C37_Witness ==
    /\ call.fn = "run"
    /\ ret.phase = "raised"
    /\ \E v, w \in DOMAIN ret.push : ret.push[v] = "done" /\ ret.push[w] = "raised"
    /\ ~ret.updated

\* C38: when run_wp_mergin_with_context has returned or raised, no project locked
\* during prepare_inputs is left in locked_projects
C38_LocksReleased ==
    (call.fn = "run" /\ ret.phase \in {"returned", "raised"})
        => ret.locked_projects = {}

\* C39: when prepare_inputs has returned, every configured work package is either
\* in wp_new, with no base file, no input file and no lock, or not in wp_new,
\* with its base file, its input file and (unless skip_lock) its lock; base/
\* holds the file of no work package the configuration lacks
C39_PreparedInputs ==
    (call.fn = "run" /\ ret.phase = "prepared") =>
        /\ \A w \in TasksOf(call) :
              \/ /\ w \in ret.wp_new
                 /\ w \notin ret.base_files
                 /\ w \notin ret.input_files
                 /\ w \notin ret.locked_projects
              \/ /\ w \notin ret.wp_new
                 /\ w \in ret.base_files
                 /\ w \in ret.input_files
                 /\ ~call.skip_lock => w \in ret.locked_projects
        /\ ret.base_files \subseteq TasksOf(call)

\* two workers have prepared a new and a known work package, locks are taken,
\* and work-packages/ held the file of a work package no longer configured
C39_Witness ==
    /\ call.fn = "run"
    /\ ret.phase = "prepared"
    /\ call.max_workers = 2
    /\ ~call.skip_lock
    /\ Unconfigured \in call.stored
    /\ \E v, w \in TasksOf(call) : v \in ret.wp_new /\ w \in ret.locked_projects

====
